---- MODULE Spec2Model ----
(***************************************************************************)
(* pyhaopenmotics: the authenticated request engine (backoff retry, error  *)
(* classification, token handling) and the WebSocket connection lifecycle  *)
(* of the four client classes found in the sources:                        *)
(*   "OMCloud"   client/openmoticscloud.py  OpenMoticsCloud(OMClient)       *)
(*   "OMGateway" client/localgateway.py     LocalGateway(OMClient)          *)
(*   "Cloud"     openmoticscloud.py         OpenMoticsCloud                 *)
(*   "Gateway"   localgateway.py            LocalGateway                    *)
(* One task runs the request path (get / post / exec_action); every await   *)
(* of a network call is a step of its own.                                  *)
(***************************************************************************)
EXTENDS Integers, Sequences, FiniteSets, TLC

\* ------------------------------------------------------------------ bounds
MaxCalls == 2          \* top-level calls made on one client
MaxTok == 2            \* distinct token values the servers hand out
MaxBody == 2           \* distinct response payloads
RecursionLimit == 3    \* depth at which the interpreter raises RecursionError
MaxWsOpens == 2        \* sockets opened on one client
MaxTicks == 1          \* token lifetimes that pass on the clock
MaxConnecting == 2     \* connect() calls suspended at the same time
MaxFrames == 2         \* frames one listen() receives
MaxLogins == 2         \* answered logins in one call of a gateway client
MaxTasks == 2          \* tasks that run _request at the same time
MaxOutputs == 2        \* outputs the gateway has
Overshoot == 1         \* how far a dimmer value lies outside its range

\* ------------------------------------------------------- program constants
max_tries == 3
LOCAL_TOKEN_EXPIRES_IN == 3600
CLOCK_OUT_OF_SYNC_MAX_SEC == 20

None == 0
Tokens == 1..MaxTok
Bodies == 1..MaxBody

Variants == {"OMCloud", "OMGateway", "Cloud", "Gateway"}
IsOMClient(v) == v \in {"OMCloud", "OMGateway"}
IsGateway(v) == v \in {"OMGateway", "Gateway"}

VARIABLES
    variant,           \* class of the client
    session,           \* "none" | "supplied" | "own"
    close_session,     \* self._close_session
    sessionClosed,     \* self.session.closed
    hasRefresh,        \* token_refresh_method is not None
    token,             \* self.token (None or a token)
    token_expires_at,  \* self.token_expires_at (client/localgateway.py)
    refreshed,         \* what token_refresh_method returned last
    refreshCalls,      \* token_refresh_method calls made by the running call
    callerHdrs,        \* the headers argument of the running call
    params,            \* the params argument (a dict the engine writes to)
    data,              \* the data argument of exec_action (the caller's dict)
    now,               \* time.time()
    wsclient,          \* self._wsclient: None or the id of a socket
    wsClosed,          \* ids of the sockets whose .closed is true
    wsOpens,           \* sockets opened so far (ws_connect returned)
    base_url,          \* self.base_url of a cloud client
    handshake,         \* the arguments of the last ws_connect call
    tasks,             \* the other tasks that run _request on the client
    pools,             \* ClientSession objects _request has created
    facade,            \* the outputs facade of the gateway and its running call
    connecting,        \* connect() calls suspended in ws_connect
    wsCloseLog,        \* sockets disconnect() has called close() on, in order
    lpc,               \* position of the listen task: "idle" | "recv"
    listenSock,        \* socket whose receive() the listen task awaits
    received,          \* frames the running listen() has received, in order
    delivered,         \* arguments of the callback calls of that listen()
    listenResult,      \* how the last listen() ended
    pc,                \* position of the request task
    op,                \* top-level call: "none" | "request" | "exec_action"
    phase,             \* which _request of the call is running
    tries,             \* backoff's tries counter of the running _request
    outcomes,          \* outcomes of the attempts of the running _request
    inflight,          \* the HTTP request on the wire
    result,            \* how the finished call ended
    depth,             \* nesting of get_token -> _request -> _get_auth_headers
    opsTrace,          \* _request operations started by the call, in order
    startToken,        \* token stored when the call began
    loginRefused,      \* a login response of the call said success is not true
    calls,             \* calls finished so far
    wsResult           \* how the last connect / disconnect step ended

vars == <<variant, session, close_session, sessionClosed, hasRefresh, token,
          token_expires_at, refreshed, refreshCalls, callerHdrs, params,
          now, wsclient, wsClosed, wsOpens, connecting, wsCloseLog, lpc,
          listenSock, received, delivered, listenResult, pc, op, phase, tries,
          outcomes, inflight, result, depth, opsTrace, startToken,
          loginRefused, calls, wsResult, base_url, handshake, tasks, pools,
          data, facade>>

sockVars == <<wsclient, wsClosed, wsOpens, connecting, wsCloseLog, handshake>>
listenVars == <<lpc, listenSock, received, delivered, listenResult>>
wsVars == <<sockVars, listenVars, wsResult>>
cfgVars == <<variant, hasRefresh, base_url>>
otherVars == <<tasks, pools, facade>>
sessVars == <<session, close_session, sessionClosed>>
tokVars == <<token, token_expires_at, refreshed>>
reqVars == <<pc, op, phase, tries, outcomes, inflight, result, depth,
             opsTrace, startToken, loginRefused, calls, refreshCalls,
             callerHdrs, params, data>>

\* ------------------------------------------------------------ error kinds
\* the raised error classes, by name
ErrTimeout == "OpenMoticsConnectionTimeoutError"
ErrConnection == "OpenMoticsConnectionError"
ErrSsl == "OpenMoticsConnectionSslError"
ErrAuth == "AuthenticationException"
ErrGeneric == "OpenMoticsError"
ErrClosed == "OpenMoticsConnectionClosed"
ErrKey == "KeyError"
ErrRecursion == "RecursionError"
ErrRuntime == "RuntimeError"
ErrRawTimeout == "asyncio.TimeoutError"

\* test_timeout: a timed-out request raises an OpenMoticsConnectionError
TimeoutIsConnectionError == TRUE
\* the TLS error shares the retry policy of the connection error
SslIsConnectionError == TRUE
\* an authentication error is not in the connection-error category
AuthIsConnectionError == FALSE

\* isinstance(e, OpenMoticsConnectionError), the test backoff applies
IsConnectionError(e) ==
    \/ e = ErrConnection
    \/ e = ErrTimeout /\ TimeoutIsConnectionError
    \/ e = ErrSsl /\ SslIsConnectionError
    \/ e = ErrAuth /\ AuthIsConnectionError

\* isinstance(e, OpenMoticsError), the root of the library's errors
IsOpenMoticsError(e) ==
    e \in {ErrGeneric, ErrConnection, ErrTimeout, ErrSsl, ErrAuth, ErrClosed}

\* ------------------------------------------------------- HTTP attempt outcomes
NoResp == [k |-> "none", status |-> 0, ctype |-> "none", payload |-> 0,
           success |-> FALSE, tok |-> None]
ErrStatuses == {401, 403, 404, 500}

Fail(kind) == [NoResp EXCEPT !.k = kind]
Http(s) == [NoResp EXCEPT !.k = "http", !.status = s]

\* what one attempt can meet: no answer in time, a connection-level failure,
\* a TLS failure, a non-2xx status, or a 2xx answer
FailOutcomes ==
    {Fail("timeout"), Fail("connfail"), Fail("sslfail")}
        \cup {Http(s) : s \in ErrStatuses}

OkOutcomes(path) ==
    IF path = "login"
    THEN {[Http(200) EXCEPT !.ctype = "json", !.success = TRUE, !.tok = t] :
              t \in Tokens}
         \cup {[Http(200) EXCEPT !.ctype = "json"]}
    ELSE {[Http(200) EXCEPT !.ctype = c, !.payload = b] :
              c \in {"json", "text"}, b \in Bodies}

Outcomes(path) == FailOutcomes \cup OkOutcomes(path)

\* resp.raise_for_status(): a status of 400 and above raises
RaisesForStatus(o) == o.k = "http" /\ o.status >= 400

\* OMClient._request with the status test of its ClientResponseError clause
\* lost: every error status raises AuthenticationException
ClassifyOMClient_AllAuth(o) ==
    IF o.k = "timeout" THEN ErrTimeout
    ELSE IF o.k = "sslfail" THEN ErrSsl
    ELSE IF RaisesForStatus(o) THEN ErrAuth
    ELSE IF o.k = "connfail" THEN ErrConnection
    ELSE "none"

\* except-clauses of OMClient._request, in their order
ClassifyOMClient(o) ==
    IF o.k = "timeout" THEN ErrTimeout
    ELSE IF o.k = "sslfail" THEN ErrSsl
    ELSE IF RaisesForStatus(o)
         THEN (IF o.status \in {401, 403} THEN ErrAuth ELSE ErrConnection)
    ELSE IF o.k = "connfail" THEN ErrConnection
    ELSE "none"

\* OpenMoticsCloud._request without its asyncio.TimeoutError clause: the
\* raw timeout error leaves the method
ClassifyCloud_RawTimeout(o) ==
    IF o.k = "timeout" THEN "asyncio.TimeoutError"
    ELSE IF RaisesForStatus(o) \/ o.k \in {"connfail", "sslfail"}
         THEN ErrConnection
    ELSE "none"

\* except-clauses of OpenMoticsCloud._request: every aiohttp.ClientError,
\* the response error of raise_for_status included, is a connection error
ClassifyCloud(o) ==
    IF o.k = "timeout" THEN ErrTimeout
    ELSE IF RaisesForStatus(o) \/ o.k \in {"connfail", "sslfail"}
         THEN ErrConnection
    ELSE "none"

\* except-clauses of LocalGateway._request
ClassifyGateway(o) ==
    IF o.k = "timeout" THEN ErrTimeout
    ELSE IF RaisesForStatus(o)
         THEN (IF o.status \in {401, 403} THEN ErrAuth ELSE ErrConnection)
    ELSE IF o.k \in {"connfail", "sslfail"} THEN ErrConnection
    ELSE "none"

Classify(v, o) ==
    IF IsOMClient(v) THEN ClassifyOMClient(o)
    ELSE IF v = "Cloud" THEN ClassifyCloud(o)
    ELSE ClassifyGateway(o)

\* the retry test with the limit off by one, upwards and downwards
Retries_FourTries(e, n) == IsConnectionError(e) /\ n <= max_tries
Retries_TwoTries(e, n) == IsConnectionError(e) /\ n < max_tries - 1

\* backoff.on_exception(expo, OpenMoticsConnectionError, max_tries=3):
\* the failed attempt number n is retried iff the error is a connection error
\* and n has not reached max_tries
Retries(e, n) == IsConnectionError(e) /\ n < max_tries

\* the tail of _request with resp.text() whatever the content type
ReturnValue_AlwaysText(o) ==
    [decoded |-> FALSE, payload |-> o.payload,
     success |-> o.success, tok |-> o.tok]

\* the tail of _request: the decoded JSON for a JSON content type, the text
\* body otherwise
ReturnValue(o) ==
    [decoded |-> o.ctype = "json", payload |-> o.payload,
     success |-> o.success, tok |-> o.tok]

NoValue == [decoded |-> FALSE, payload |-> 0, success |-> FALSE, tok |-> None]
NoResult == [kind |-> "none", err |-> "none", value |-> NoValue]
Raised(e) == [kind |-> "error", err |-> e, value |-> NoValue]
Returned(o) == [kind |-> "ok", err |-> "none", value |-> ReturnValue(o)]

\* how the _request that met outcome o on its last attempt ends
Completion(v, o) ==
    IF Classify(v, o) = "none" THEN Returned(o) ELSE Raised(Classify(v, o))

\* ---------------------------------------------------------------- headers
\* a header value: set by the engine (the Authorization value carries the
\* token) or given by the caller
EngineValue(t) == [by |-> "engine", tok |-> t]
CallerValue == [by |-> "caller", tok |-> None]
NoHeaders == <<>>

\* the headers arguments a caller passes: none, or a dict that has the three
\* keys the engines set and one key of its own
CallerHeaders ==
    {NoHeaders,
     [k \in {"Authorization", "User-Agent", "Accept", "X-Caller"} |->
          CallerValue]}

\* the dict literal each engine builds, t being the stored token:
\* client/openmoticscloud.py sets Authorization only, client/localgateway.py
\* and openmoticscloud.py set all three, localgateway.py sends the token in
\* the body
EngineHeaders(v, t) ==
    IF v = "OMCloud" THEN [k \in {"Authorization"} |-> EngineValue(t)]
    ELSE IF v = "Gateway"
         THEN [k \in {"User-Agent", "Accept"} |-> EngineValue(None)]
    ELSE [k \in {"Authorization", "User-Agent", "Accept"} |->
              EngineValue(IF k = "Authorization" THEN t ELSE None)]

\* d.update(e)
DictUpdate(d, e) ==
    [k \in DOMAIN d \cup DOMAIN e |-> IF k \in DOMAIN e THEN e[k] ELSE d[k]]

\* the headers session.request is called with: _get_auth_headers updates the
\* caller's dict with the engine's; openmoticscloud.py and localgateway.py
\* assign a fresh dict
RequestHeaders(v, caller, t) ==
    IF IsOMClient(v) THEN DictUpdate(caller, EngineHeaders(v, t))
    ELSE EngineHeaders(v, t)

\* ------------------------------------------------------- query parameters
\* a parameter value: its Python type and str() of it
ParamValue(type, text) == [type |-> type, v |-> text]
NoParams == <<>>

\* a params dict with a true, a false, an integer and a string value
QueryParams ==
    [k \in {"active", "locked", "size", "name"} |->
         IF k = "active" THEN ParamValue("bool", "True")
         ELSE IF k = "locked" THEN ParamValue("bool", "False")
         ELSE IF k = "size" THEN ParamValue("int", "5")
         ELSE ParamValue("str", "Mixed")]

\* str.lower() on the texts str() gives for a bool
Lower(text) ==
    IF text = "True" THEN "true" ELSE IF text = "False" THEN "false" ELSE text

\* the loop body with str(value) in place of str(value).lower()
ConvertParam_NoLower(value) ==
    IF value.type = "bool" THEN ParamValue("str", value.v) ELSE value

\* the body of the loop over params.items(): a bool becomes
\* str(value).lower()
ConvertParam(value) ==
    IF value.type = "bool" THEN ParamValue("str", Lower(value.v)) ELSE value

\* the loop over params.items() of OMClient._request and of
\* OpenMoticsCloud._request; localgateway.py has none
ConvertParams(v, ps) ==
    IF v = "Gateway" THEN ps ELSE [k \in DOMAIN ps |-> ConvertParam(ps[k])]

\* the arguments a caller gives a request: nothing, or headers and params
CallArgs ==
    {[headers |-> h,
      params |-> IF h = NoHeaders THEN NoParams ELSE QueryParams] :
         h \in CallerHeaders}

\* the caller's data: none, or a dict without a token
NoData == <<>>
CallerData == {NoData, [k \in {"id"} |-> 1]}

\* data.copy() (or {}) with the token added under the key "token"
PostBody(d, t) ==
    [k \in DOMAIN d \cup {"token"} |-> IF k = "token" THEN t ELSE d[k]]

\* get_post_data writing the token into the caller's dict
DataAfterPost_InPlace(v, d, t) ==
    IF v = "Gateway" /\ t /= None THEN PostBody(d, t) ELSE d

\* the caller's dict once get_post_data has run: the token went into a copy
DataAfterPost(v, d, t) == d

\* get_post_data without the token
get_post_data_NoToken(v, t) == None

\* the token field of the outgoing body: localgateway.py's get_post_data
\* adds the stored token when there is one; the other classes send the
\* caller's data as it is
get_post_data(v, t) == IF v = "Gateway" THEN t ELSE None

NoReq == [path |-> "none", tok |-> None, headers |-> NoHeaders,
          params |-> NoParams, bodyToken |-> None]

\* an entry of opsTrace: an operation of the call (a login, an action
\* request, a plain request) and how it ended, "running" until it has
Op(path) == [path |-> path, end |-> "running"]
EndOf(res) == IF res.kind = "ok" THEN "ok" ELSE res.err
Ended(tr, res) == [tr EXCEPT ![Len(tr)].end = EndOf(res)]

PathOf(ph) ==
    IF ph \in {"login1", "login2"} THEN "login"
    ELSE IF ph \in {"action1", "action2", "hdr"} THEN "action"
    ELSE "req"

\* the test of _get_auth_headers (client/localgateway.py) that sends a login
NeedsLogin ==
    token = None \/ token_expires_at < now + CLOCK_OUT_OF_SYNC_MAX_SEC

\* the token an attempt sends once the refresh method, if any, has returned r
TokenAfterRefresh_OnlyWhenNone(r) ==
    IF hasRefresh /\ token = None THEN r ELSE token
TokenAfterRefresh_Stale(r) == token
TokenAfterRefresh(r) == IF hasRefresh THEN r ELSE token

\* self.session is None: a ClientSession is created and owned
LazySession == IF session = "none" THEN "own" ELSE session
\* _close_session set whether or not the session was created here
LazyCloseSession_Always == TRUE
LazyCloseSession == IF session = "none" THEN TRUE ELSE close_session

\* connected without the test of the socket's closed flag
connected_HandleOnly == wsclient /= None

\* self.connected
connected == wsclient /= None /\ wsclient \notin wsClosed

\* --------------------------------------------------------------------- URLs
\* a URL: scheme, host and the segments of its path
Url(scheme, host, path) == [scheme |-> scheme, host |-> host, path |-> path]
NoUrl == Url("", "", <<>>)

\* "https://cloud.openmotics.com/api"
CLOUD_BASE_URL == Url("https", "cloud.openmotics.com", <<"api">>)

\* the base_url argument of a cloud client's constructor
BaseUrls ==
    {CLOUD_BASE_URL, Url("https", "api.openmotics.com", <<"api", "v1.1">>)}

\* "/ws/events"
WsEventsPath == <<"ws", "events">>

\* _get_url of the cloud classes: URL(f"{self.base_url}{path}"), then
\* with_scheme(scheme)
get_url(base, path, scheme) == Url(scheme, base.host, base.path \o path)

\* the url argument of ws_connect: OMClient.connect passes the literal
\* "wss://api.openmotics.com/api/v1.1/ws/events", OpenMoticsCloud.connect
\* (openmoticscloud.py) passes the URL it computed
ws_connect_url(v, url) ==
    IF v = "OMCloud"
    THEN Url("wss", "api.openmotics.com", <<"api", "v1.1", "ws", "events">>)
    ELSE url

\* base64_encode(token): the token's text in base64
base64_encode(t) == [b64 |-> t]

\* _get_ws_headers: f"authorization.bearer.{base64_message}" under the key
\* Sec-WebSocket-Protocol, built from the stored token
get_ws_headers(t) ==
    [k \in {"Sec-WebSocket-Protocol"} |->
         <<"authorization", "bearer", base64_encode(t)>>]

\* no ws_connect call yet
NoHandshake == [url |-> NoUrl, errorUrl |-> NoUrl, headers |-> <<>>]

\* ----------------------------------------------------- the outputs facade
\* the ids of the outputs of the gateway, and the ids a caller asks for (one
\* of them is no output)
OutputIds == 0..(MaxOutputs - 1)
AskedIds == 0..MaxOutputs

\* the bounds of turn_on's value
DimmerMin == 0
DimmerMax == 100

\* the value argument of turn_on: absent (None) or an integer
NoDimmer == [given |-> FALSE, v |-> 0]
Dimmer(v) == [given |-> TRUE, v |-> v]
DefaultDimmer == Dimmer(100)
DimmerValues ==
    {NoDimmer} \cup {Dimmer(v) : v \in (DimmerMin - Overshoot)..(DimmerMin + 1)
                                     \cup (DimmerMax - 1)..(DimmerMax + Overshoot)}

Min2(a, b) == IF a < b THEN a ELSE b
Max2(a, b) == IF a > b THEN a ELSE b

\* the value without its lower bound
ClampValue_NoFloor(v) == Min2(v, DimmerMax)

\* value = min(value, 100); value = max(0, value)
ClampValue(v) == Max2(DimmerMin, Min2(v, DimmerMax))

\* the data of turn_on and of turn_off
TurnOnData(id, value) ==
    IF value.given
    THEN [id |-> id, is_on |-> TRUE, dimmer |-> ClampValue(value.v)]
    ELSE [id |-> id, is_on |-> TRUE]
TurnOffData(id) == [id |-> id, is_on |-> FALSE]

\* one exec_action call of the facade, and the data of a call made
\* without data
Action(name, d) == [action |-> name, data |-> d]
NoActionData == [id |-> -1]

\* the errors exec_action raises to the facade, and the errors of the
\* interpreter in the facade itself
ExecActionErrors == {ErrConnection, ErrTimeout, ErrAuth}
ErrType == "TypeError"
ErrAttribute == "AttributeError"

\* the configuration list and the status list of the gateway: one entry per
\* output, in the order of the ids
GatewayConfigs == [i \in 1..MaxOutputs |-> [id |-> i - 1]]
GatewayStatus(st) == [i \in 1..MaxOutputs |-> [id |-> i - 1, status |-> st[i - 1]]]
StatusValues == {0, 1}

\* merge_dicts: the entries of list_b go under the key of the entries of
\* list_a at the same position
merge_dicts(list_a, list_b) ==
    [i \in 1..Min2(Len(list_a), Len(list_b)) |->
        [id |-> list_a[i].id, status |-> list_b[i]]]

\* Output.from_dict and Status.from_dict: idx is the id, on is status == 1
OutputFromDict(d) == [idx |-> d.id, on |-> (d.status.status = 1)]

\* get_by_id: the last output of the list whose idx is output_id
HasOutput(outs, id) == \E i \in 1..Len(outs) : outs[i].idx = id
OutputById(outs, id) ==
    outs[CHOOSE i \in 1..Len(outs) :
            /\ outs[i].idx = id
            /\ \A j \in (i + 1)..Len(outs) : outs[j].idx /= id]

\* the data toggle sends for an output it has read, without the negation
ToggleData_SameState(o) ==
    IF o.on THEN TurnOnData(o.idx, DefaultDimmer) ELSE TurnOffData(o.idx)

\* the data toggle sends for an output it has read: turn_off when it is on,
\* turn_on with the default value otherwise
ToggleData(o) ==
    IF o.on THEN TurnOffData(o.idx) ELSE TurnOnData(o.idx, DefaultDimmer)

\* a facade as constructed: no configurations cached, no call running
NoCall == [op |-> "none", id |-> 0, value |-> NoDimmer]
NewFacade ==
    [pc |-> "idle", call |-> NoCall, has_configs |-> FALSE,
     output_configs |-> <<>>, outputs |-> <<>>, sent |-> <<>>,
     result |-> "none"]

\* ------------------------------------------------------- concurrent tasks
Tasks == 1..MaxTasks

\* a task outside _request
IdleTask == [pc |-> "idle", seen |-> "none", pool |-> 0]

\* the session test as made when the task entered _request, before its
\* awaits
SessionIsNone_AtEntry(t) == tasks[t].seen = "none"

\* "if self.session is None", evaluated in the same step as the assignment
\* that follows it
SessionIsNone(t) == session = "none"

\* ------------------------------------------------------------------ Init
\* the client as its constructor leaves it: a gateway has no token and no
\* refresh method, a cloud client holds the caller's token
Constructed ==
    /\ variant \in Variants
    /\ session \in {"none", "supplied"}
    /\ close_session = FALSE /\ sessionClosed = FALSE
    /\ hasRefresh \in (IF IsGateway(variant) THEN {FALSE} ELSE BOOLEAN)
    /\ token \in (IF IsGateway(variant) THEN {None} ELSE Tokens)
    /\ token_expires_at = 0
    /\ refreshed = None /\ refreshCalls = 0 /\ callerHdrs = NoHeaders
    /\ params = NoParams /\ data = NoData
    /\ now = 0
    /\ wsclient = None /\ wsClosed = {} /\ wsOpens = 0 /\ connecting = 0
    /\ wsCloseLog = <<>> /\ wsResult = "none"
    /\ lpc = "idle" /\ listenSock = None /\ received = <<>>
    /\ delivered = <<>> /\ listenResult = "none"
    /\ pc = "idle" /\ op = "none" /\ phase = "none"
    /\ tries = 0 /\ outcomes = <<>> /\ inflight = NoReq /\ result = NoResult
    /\ depth = 0 /\ opsTrace = <<>> /\ startToken = None
    /\ loginRefused = FALSE /\ calls = 0
    /\ handshake = NoHandshake
    /\ tasks = [t \in Tasks |-> IdleTask] /\ pools = 0
    /\ facade = NewFacade

\* a client built with the base URL of const.py
Init == Constructed /\ base_url = CLOUD_BASE_URL

\* ------------------------------------------------------- the request path
\* get / post / a direct _request: one _request operation
StartRequest ==
    /\ pc = "idle" /\ calls < MaxCalls
    /\ op' = "request" /\ phase' = "req" /\ pc' = "prep"
    /\ tries' = 0 /\ outcomes' = <<>> /\ inflight' = NoReq
    /\ result' = NoResult /\ depth' = 0 /\ opsTrace' = <<Op("req")>>
    /\ startToken' = token /\ loginRefused' = FALSE /\ refreshCalls' = 0
    /\ \E a \in CallArgs :
          /\ variant = "Gateway" => a.headers = NoHeaders
          /\ callerHdrs' = a.headers /\ params' = a.params
    /\ data' = NoData
    /\ UNCHANGED <<calls, cfgVars, otherVars, sessVars, tokVars, now, wsVars>>

\* exec_action up to its first await.  localgateway.py: login first when no
\* token is stored.  client/localgateway.py: the headers are obtained before
\* _request is entered.
StartExecAction ==
    /\ pc = "idle" /\ calls < MaxCalls /\ IsGateway(variant)
    /\ op' = "exec_action" /\ pc' = "prep"
    /\ phase' = IF variant = "OMGateway" THEN "hdr"
                ELSE IF token = None THEN "login1" ELSE "action1"
    /\ opsTrace' = IF variant = "OMGateway" THEN <<>>
                   ELSE IF token = None THEN <<Op("login")>>
                   ELSE <<Op("action")>>
    /\ tries' = 0 /\ outcomes' = <<>> /\ inflight' = NoReq
    /\ result' = NoResult /\ depth' = 0
    /\ startToken' = token /\ loginRefused' = FALSE /\ refreshCalls' = 0
    /\ callerHdrs' = NoHeaders /\ params' = NoParams
    /\ data' \in (IF variant = "Gateway" THEN CallerData ELSE {NoData})
    /\ UNCHANGED <<calls, cfgVars, otherVars, sessVars, tokVars, now, wsVars>>

\* one attempt of _request up to the await of session.request: the token is
\* refreshed (cloud, when a refresh method is given), the session is created
\* when there is none, and the request leaves with the headers and the
\* stored token (header for the cloud, get_post_data for the gateway); a
\* closed session raises RuntimeError, which no except clause catches
Prepare ==
    /\ pc = "prep"
    /\ ~(variant = "OMGateway" /\ NeedsLogin)
    /\ IF phase = "hdr"
       THEN /\ phase' = "action1"
            /\ opsTrace' = Append(opsTrace, Op("action"))
            /\ UNCHANGED <<pc, tries, inflight, token, refreshed,
                           refreshCalls, result, session, close_session,
                           params, data>>
       ELSE /\ tries' = tries + 1
            /\ \E r \in (IF hasRefresh THEN Tokens ELSE {refreshed}) :
                  /\ refreshed' = r
                  /\ token' = TokenAfterRefresh(r)
            /\ refreshCalls' = refreshCalls + (IF hasRefresh THEN 1 ELSE 0)
            /\ session' = LazySession
            /\ close_session' = LazyCloseSession
            /\ params' = ConvertParams(variant, params)
            /\ data' = DataAfterPost(variant, data, token')
            /\ IF sessionClosed
               THEN /\ pc' = "done" /\ result' = Raised(ErrRuntime)
                    /\ opsTrace' = Ended(opsTrace, Raised(ErrRuntime))
                    /\ UNCHANGED inflight
               ELSE /\ pc' = "inflight"
                    /\ inflight' =
                           [path |-> PathOf(phase), tok |-> token',
                            headers |->
                                RequestHeaders(variant, callerHdrs, token'),
                            params |-> params',
                            bodyToken |-> get_post_data(variant, token')]
                    /\ UNCHANGED <<result, opsTrace>>
            /\ UNCHANGED phase
    /\ UNCHANGED <<op, outcomes, depth, startToken, loginRefused, callerHdrs,
                   calls, cfgVars, otherVars, sessionClosed, token_expires_at, now,
                   wsVars>>

\* client/localgateway.py: _get_auth_headers calls get_token, get_token calls
\* _request("login"), whose first statement after the URL is
\* _get_auth_headers again, with the token state unchanged
GetTokenRecurse ==
    /\ pc = "prep" /\ variant = "OMGateway" /\ NeedsLogin
    /\ depth < RecursionLimit
    /\ depth' = depth + 1
    /\ opsTrace' = Append(opsTrace, Op("login"))
    /\ tries' = 1
    /\ UNCHANGED <<pc, op, phase, outcomes, inflight, result, startToken,
                   loginRefused, calls, refreshCalls, callerHdrs, params, data,
                   cfgVars, otherVars, sessVars, tokVars, now, wsVars>>

\* the interpreter's recursion limit ends the nesting: RecursionError is not
\* an OpenMoticsConnectionError, so no backoff wrapper on the way up retries
GetTokenOverflow ==
    /\ pc = "prep" /\ variant = "OMGateway" /\ NeedsLogin
    /\ depth = RecursionLimit
    /\ result' = Raised(ErrRecursion) /\ pc' = "done"
    /\ opsTrace' = Ended(opsTrace, Raised(ErrRecursion))
    /\ UNCHANGED <<op, phase, tries, outcomes, inflight, depth,
                   startToken, loginRefused, calls, refreshCalls, callerHdrs,
                   params, data, cfgVars, otherVars, sessVars, tokVars, now, wsVars>>

\* the part of the state a finished _request acts on
Cur ==
    [pc |-> pc, phase |-> phase, tries |-> tries, outcomes |-> outcomes,
     inflight |-> inflight, result |-> result, depth |-> depth,
     opsTrace |-> opsTrace, loginRefused |-> loginRefused,
     token |-> token, token_expires_at |-> token_expires_at]

\* the call ends: res is returned or raised to the caller
EndCall(st, res) ==
    [st EXCEPT !.pc = "done", !.result = res,
               !.opsTrace = Ended(@, res)]

\* the running operation has ended with res and the call goes on with the
\* next _request operation
NextRequest(st, res, ph) ==
    [st EXCEPT !.pc = "prep", !.phase = ph, !.tries = 0, !.outcomes = <<>>,
               !.opsTrace = Append(Ended(@, res), Op(PathOf(ph)))]

\* LocalGateway.login (localgateway.py) once its _request has ended with res:
\* an error propagates; otherwise resp["token"] is stored, and a response
\* without that key raises KeyError.  The success field is not read.
login(st, res, nextPhase) ==
    IF res.kind = "error" THEN EndCall(st, res)
    ELSE IF res.value.tok = None
         THEN EndCall([st EXCEPT !.loginRefused = TRUE], Raised(ErrKey))
    ELSE NextRequest([st EXCEPT !.token = res.value.tok,
                                !.loginRefused = @ \/ ~res.value.success],
                     res, nextPhase)

\* exec_action without its except clause (as in client/localgateway.py): the
\* AuthenticationException of the action request reaches the caller
exec_action_NoRelogin(st, res) ==
    IF st.phase = "login1" THEN login(st, res, "action1")
    ELSE EndCall(st, res)

\* exec_action logging in and trying again after every rejected action
exec_action_AlwaysRelogin(st, res) ==
    IF st.phase \in {"login1", "login2"} THEN login(st, res, "action1")
    ELSE IF res.kind = "error" /\ res.err = ErrAuth
         THEN NextRequest(st, res, "login2")
    ELSE EndCall(st, res)

\* LocalGateway.exec_action (localgateway.py) once the _request of phase
\* st.phase has ended with res: an AuthenticationException of the first
\* action request leads to login() and one more action request
exec_action(st, res) ==
    IF st.phase = "login1" THEN login(st, res, "action1")
    ELSE IF st.phase = "action1"
         THEN (IF res.kind = "error" /\ res.err = ErrAuth
               THEN NextRequest(st, res, "login2")
               ELSE EndCall(st, res))
    ELSE IF st.phase = "login2" THEN login(st, res, "action2")
    ELSE EndCall(st, res)

\* get_token storing the token of a successful login without its expiry
get_token_KeepExpiry(st, res) ==
    IF res.kind = "error" THEN EndCall(st, res)
    ELSE LET stored ==
                 IF res.value.success
                 THEN [st EXCEPT !.token = res.value.tok]
                 ELSE [st EXCEPT !.token = None, !.token_expires_at = 0,
                                 !.loginRefused = TRUE]
             up == [stored EXCEPT !.depth = @ - 1]
         IN  IF up.depth = 0 /\ up.phase = "hdr"
             THEN NextRequest(up, res, "action1")
             ELSE [up EXCEPT !.pc = "inflight", !.tries = 1,
                             !.outcomes = <<>>,
                             !.opsTrace = Ended(@, res),
                             !.inflight =
                                 [path |-> IF up.depth = 0
                                           THEN PathOf(up.phase)
                                           ELSE "login",
                                  tok |-> up.token,
                                  headers |->
                                      RequestHeaders(variant, callerHdrs,
                                                     up.token),
                                  params |-> params,
                                  bodyToken |->
                                      get_post_data(variant, up.token)]]

\* LocalGateway.get_token (client/localgateway.py) once its _request has
\* ended with res: token and expiry are stored on success and cleared
\* otherwise, nothing is raised; then the frame that asked for the headers
\* goes on
get_token(st, res) ==
    IF res.kind = "error" THEN EndCall(st, res)
    ELSE LET stored ==
                 IF res.value.success
                 THEN [st EXCEPT !.token = res.value.tok,
                                 !.token_expires_at =
                                     now + LOCAL_TOKEN_EXPIRES_IN]
                 ELSE [st EXCEPT !.token = None, !.token_expires_at = 0,
                                 !.loginRefused = TRUE]
             up == [stored EXCEPT !.depth = @ - 1]
         IN  IF up.depth = 0 /\ up.phase = "hdr"
             THEN NextRequest(up, res, "action1")
             ELSE [up EXCEPT !.pc = "inflight", !.tries = 1,
                             !.outcomes = <<>>,
                             !.opsTrace = Ended(@, res),
                             !.inflight =
                                 [path |-> IF up.depth = 0
                                           THEN PathOf(up.phase)
                                           ELSE "login",
                                  tok |-> up.token,
                                  headers |->
                                      RequestHeaders(variant, callerHdrs,
                                                     up.token),
                                  params |-> params,
                                  bodyToken |->
                                      get_post_data(variant, up.token)]]

\* how the login request of get_token can end
LoginResults ==
    {Returned(o) : o \in OkOutcomes("login")}
        \cup {Raised(e) : e \in {ErrConnection, ErrTimeout, ErrSsl, ErrAuth}}

\* lines 119-128 of get_token on their own: the login request of get_token
\* ends with res, as it would were it sent without asking for the headers
\* again, and get_token stores what the answer says
LoginAnswered ==
    /\ pc = "prep" /\ variant = "OMGateway" /\ NeedsLogin /\ depth = 0
    /\ Cardinality({i \in 1..Len(opsTrace) : opsTrace[i].path = "login"})
           < MaxLogins
    /\ \E res \in LoginResults :
          LET st == [Cur EXCEPT !.depth = 1,
                                !.opsTrace = Append(@, Op("login"))]
              n == get_token(st, res)
          IN  /\ pc' = n.pc /\ phase' = n.phase /\ tries' = n.tries
              /\ outcomes' = n.outcomes /\ inflight' = n.inflight
              /\ result' = n.result /\ depth' = n.depth
              /\ opsTrace' = n.opsTrace /\ loginRefused' = n.loginRefused
              /\ token' = n.token
              /\ token_expires_at' = n.token_expires_at
    /\ UNCHANGED <<op, startToken, calls, refreshCalls, callerHdrs, params, data,
                   refreshed, cfgVars, otherVars, sessVars, now, wsVars>>

\* what follows the end of a _request operation
AfterRequest(st, res) ==
    IF variant = "OMGateway" /\ st.depth > 0 THEN get_token(st, res)
    ELSE IF variant = "Gateway" /\ op = "exec_action"
         THEN exec_action(st, res)
    ELSE EndCall(st, res)

\* the backoff wrapper calling _request again without sleeping
AfterResponse_NoSleep(o) ==
    LET st == [Cur EXCEPT !.outcomes = Append(@, o), !.inflight = NoReq]
        e == Classify(variant, o)
    IN  IF e /= "none" /\ Retries(e, tries)
        THEN [st EXCEPT !.pc = "prep"]
        ELSE AfterRequest(st, Completion(variant, o))

\* the answer to the attempt on the wire: classified, then retried by the
\* backoff wrapper or handed to the caller of _request
AfterResponse(o) ==
    LET st == [Cur EXCEPT !.outcomes = Append(@, o), !.inflight = NoReq]
        e == Classify(variant, o)
    IN  IF e /= "none" /\ Retries(e, tries)
        THEN [st EXCEPT !.pc = "backoff"]
        ELSE AfterRequest(st, Completion(variant, o))

Respond ==
    /\ pc = "inflight"
    /\ \E o \in Outcomes(inflight.path) :
          LET n == AfterResponse(o)
          IN  /\ pc' = n.pc /\ phase' = n.phase /\ tries' = n.tries
              /\ outcomes' = n.outcomes /\ inflight' = n.inflight
              /\ result' = n.result /\ depth' = n.depth
              /\ opsTrace' = n.opsTrace /\ loginRefused' = n.loginRefused
              /\ token' = n.token
              /\ token_expires_at' = n.token_expires_at
    /\ UNCHANGED <<op, startToken, calls, refreshCalls, callerHdrs, params, data,
                   refreshed, cfgVars, otherVars, sessVars, now, wsVars>>

\* the backoff delay has elapsed: the next attempt starts
Backoff ==
    /\ pc = "backoff"
    /\ pc' = "prep"
    /\ UNCHANGED <<op, phase, tries, outcomes, inflight, result, depth,
                   opsTrace, startToken, loginRefused, calls, refreshCalls,
                   callerHdrs, params, data, cfgVars, otherVars, sessVars, tokVars, now,
                   wsVars>>

\* the caller has the result; the task is free for the next call
Return ==
    /\ pc = "done"
    /\ pc' = "idle" /\ calls' = calls + 1
    /\ op' = "none" /\ phase' = "none" /\ tries' = 0 /\ outcomes' = <<>>
    /\ inflight' = NoReq /\ result' = NoResult /\ depth' = 0
    /\ opsTrace' = <<>> /\ startToken' = None /\ loginRefused' = FALSE
    /\ refreshCalls' = 0 /\ callerHdrs' = NoHeaders /\ params' = NoParams
    /\ data' = NoData
    /\ UNCHANGED <<cfgVars, otherVars, sessVars, tokVars, now, wsVars>>

\* time passes between calls, one token lifetime at a time
Tick ==
    /\ pc = "idle"
    /\ now < MaxTicks * LOCAL_TOKEN_EXPIRES_IN
    /\ now' = now + LOCAL_TOKEN_EXPIRES_IN
    /\ UNCHANGED <<reqVars, cfgVars, otherVars, sessVars, tokVars, wsVars>>

\* ------------------------------------------------- concurrent requests
\* a task enters _request and is suspended in the awaits that precede the
\* session test (the refresh method, _get_auth_headers)
TaskEnter(t) ==
    /\ tasks[t].pc = "idle"
    /\ tasks' = [tasks EXCEPT ![t] = [pc |-> "entered", seen |-> session,
                                      pool |-> 0]]
    /\ UNCHANGED <<pools, facade, reqVars, cfgVars, sessVars, tokVars, now,
                   wsVars>>

\* the task runs on to the await of session.request: the session is tested
\* and, when there is none, created and stored, with no await in between;
\* the request is sent on the stored session (0: the caller's, k: the k-th
\* one created)
TaskSend(t) ==
    /\ tasks[t].pc = "entered"
    /\ session' = IF SessionIsNone(t) THEN "own" ELSE session
    /\ close_session' = IF SessionIsNone(t) THEN TRUE ELSE close_session
    /\ pools' = pools + (IF SessionIsNone(t) THEN 1 ELSE 0)
    /\ tasks' = [tasks EXCEPT ![t].pc = "inflight",
                              ![t].pool = IF session' = "own" THEN pools'
                                          ELSE 0]
    /\ UNCHANGED <<sessionClosed, facade, reqVars, cfgVars, tokVars, now,
                   wsVars>>

\* the request of the task is answered and _request returns or raises
TaskDone(t) ==
    /\ tasks[t].pc = "inflight"
    /\ tasks' = [tasks EXCEPT ![t] = IdleTask]
    /\ UNCHANGED <<pools, facade, reqVars, cfgVars, sessVars, tokVars, now,
                   wsVars>>

\* ----------------------------------------------- calls of outputs facade
FacadeFrame ==
    UNCHANGED <<tasks, pools, reqVars, cfgVars, sessVars, tokVars, now,
                wsVars>>

FacadeSends(f, name, d) ==
    [f EXCEPT !.sent = Append(@, Action(name, d))]

\* turn_on up to the await of exec_action('set_output')
turn_on ==
    /\ facade.pc = "idle"
    /\ \E id \in AskedIds, value \in DimmerValues :
          facade' = [FacadeSends(facade, "set_output", TurnOnData(id, value))
                        EXCEPT !.pc = "set", !.result = "none",
                               !.call = [op |-> "turn_on", id |-> id,
                                         value |-> value]]
    /\ FacadeFrame

\* turn_off up to the await of exec_action('set_output')
turn_off ==
    /\ facade.pc = "idle"
    /\ \E id \in AskedIds :
          facade' = [FacadeSends(facade, "set_output", TurnOffData(id))
                        EXCEPT !.pc = "set", !.result = "none",
                               !.call = [op |-> "turn_off", id |-> id,
                                         value |-> NoDimmer]]
    /\ FacadeFrame

\* toggle up to the first await of get_all: the configurations are asked
\* for when none are cached, the status otherwise
toggle ==
    /\ facade.pc = "idle"
    /\ \E id \in AskedIds :
          LET f == [facade EXCEPT !.result = "none",
                                  !.call = [op |-> "toggle", id |-> id,
                                            value |-> NoDimmer]]
          IN  facade' =
                 IF facade.has_configs
                 THEN [FacadeSends(f, "get_output_status", NoActionData)
                          EXCEPT !.pc = "status"]
                 ELSE [FacadeSends(f, "get_output_configurations",
                                   NoActionData)
                          EXCEPT !.pc = "cfg"]
    /\ FacadeFrame

\* get_output_configurations is answered: the list is cached when success
\* is true; then the status is asked for
ConfigsAnswered ==
    /\ facade.pc = "cfg"
    /\ \/ \E success \in BOOLEAN :
             LET f == IF success
                      THEN [facade EXCEPT !.has_configs = TRUE,
                                          !.output_configs = GatewayConfigs]
                      ELSE facade
             IN  facade' = [FacadeSends(f, "get_output_status", NoActionData)
                               EXCEPT !.pc = "status"]
       \/ \E e \in ExecActionErrors :
             facade' = [facade EXCEPT !.pc = "done", !.result = e]
    /\ FacadeFrame

\* get_output_status is answered: get_all merges it into the cached
\* configurations and builds the outputs, get_by_id picks the output, and
\* toggle goes on to turn_off or turn_on up to the await of
\* exec_action('set_output').  Output.from_dict looks the type of each
\* configuration up in the table of openmoticsgw/models/const.py and raises
\* KeyError for a type the table does not have (typed is false)
StatusAnswered ==
    /\ facade.pc = "status"
    /\ \/ \E st \in [OutputIds -> StatusValues], typed \in BOOLEAN :
             IF ~facade.has_configs
             THEN facade' = [facade EXCEPT !.pc = "done", !.result = ErrType]
             ELSE IF ~typed
             THEN facade' = [facade EXCEPT !.pc = "done", !.result = ErrKey]
             ELSE LET merged == merge_dicts(facade.output_configs,
                                            GatewayStatus(st))
                      outs == [i \in 1..Len(merged) |->
                                  OutputFromDict(merged[i])]
                      f == [facade EXCEPT !.outputs = outs]
                  IN  IF ~HasOutput(outs, facade.call.id)
                      THEN facade' = [f EXCEPT !.pc = "done",
                                               !.result = ErrAttribute]
                      ELSE facade' =
                              [FacadeSends(f, "set_output",
                                   ToggleData(OutputById(outs, facade.call.id)))
                                  EXCEPT !.pc = "set"]
       \/ \E e \in ExecActionErrors :
             facade' = [facade EXCEPT !.pc = "done", !.result = e]
    /\ FacadeFrame

\* set_output is answered: the call returns the answer or raises
SetAnswered ==
    /\ facade.pc = "set"
    /\ \E r \in {"returned"} \cup ExecActionErrors :
          facade' = [facade EXCEPT !.pc = "done", !.result = r]
    /\ FacadeFrame

\* the caller has the result; the facade keeps its cache for the next call
FacadeReturn ==
    /\ facade.pc = "done"
    /\ facade' = [facade EXCEPT !.pc = "idle", !.sent = <<>>]
    /\ FacadeFrame

\* ------------------------------------------------------ the event stream
\* the classes that have a usable connect()
HasConnect(v) == v \in {"OMCloud", "Cloud"}

\* the error connect() raises when the client has no session
NoSessionError(v) == IF v = "OMCloud" THEN ErrGeneric ELSE ErrConnection

\* connect() up to the await of session.ws_connect: nothing happens when
\* connected, a missing session raises, otherwise the URL is computed, the
\* headers are built and the socket open is issued.  client/openmoticscloud.py
\* refreshes the token in _get_ws_headers (r1) and again in
\* _get_ws_protocols (r2), whose result connect() drops
connect ==
    /\ HasConnect(variant)
    /\ IF connected
       THEN wsResult' = "noop"
            /\ UNCHANGED <<connecting, token, refreshed, handshake>>
       ELSE IF session = "none"
       THEN wsResult' = NoSessionError(variant)
            /\ UNCHANGED <<connecting, token, refreshed, handshake>>
       ELSE /\ connecting < MaxConnecting
            /\ connecting' = connecting + 1
            /\ wsResult' = "opening"
            /\ \E r1, r2 \in (IF variant = "OMCloud" /\ hasRefresh
                              THEN Tokens ELSE {refreshed}) :
                  LET url == get_url(base_url, WsEventsPath, "wss")
                      t1 == IF variant = "OMCloud" THEN TokenAfterRefresh(r1)
                            ELSE token
                  IN  /\ refreshed' = r2
                      /\ token' = IF variant = "OMCloud"
                                  THEN TokenAfterRefresh(r2) ELSE token
                      /\ handshake' =
                             [url |-> ws_connect_url(variant, url),
                              errorUrl |-> url,
                              headers |-> get_ws_headers(t1)]
    /\ UNCHANGED <<wsclient, wsClosed, wsOpens, wsCloseLog, listenVars,
                   reqVars, cfgVars, otherVars, sessVars, token_expires_at, now>>

\* ws_connect returns a socket: it becomes self._wsclient
ConnectOpened ==
    /\ connecting > 0 /\ wsOpens < MaxWsOpens
    /\ connecting' = connecting - 1
    /\ wsOpens' = wsOpens + 1
    /\ wsclient' = wsOpens + 1
    /\ wsResult' = "opened"
    /\ UNCHANGED <<wsClosed, wsCloseLog, handshake, listenVars, reqVars, cfgVars, otherVars,
                   sessVars, tokVars, now>>

\* how ws_connect can fail
ConnectFailures == {"handshake", "connection", "resolve", "timeout"}

\* the except clause of connect(): WSServerHandshakeError,
\* ClientConnectionError and socket.gaierror become
\* OpenMoticsConnectionError with the computed URL in the message; the
\* TimeoutError of the session's total timeout matches none of them
ConnectError(kind) ==
    IF kind = "timeout" THEN ErrRawTimeout ELSE ErrConnection

\* ws_connect fails: connect() raises and stores nothing
ConnectFailed ==
    /\ connecting > 0
    /\ connecting' = connecting - 1
    /\ \E kind \in ConnectFailures : wsResult' = ConnectError(kind)
    /\ UNCHANGED <<wsclient, wsClosed, wsOpens, wsCloseLog, handshake, listenVars,
                   reqVars, cfgVars, otherVars, sessVars, tokVars, now>>

\* disconnect without its guard: close() is called on whatever handle is
\* stored
disconnect_NoGuard ==
    /\ variant = "OMCloud" /\ wsclient /= None
    /\ wsClosed' = wsClosed \cup {wsclient}
    /\ wsCloseLog' = Append(wsCloseLog, wsclient)
    /\ wsResult' = "disconnected"
    /\ UNCHANGED <<wsclient, wsOpens, connecting, handshake, listenVars, reqVars,
                   cfgVars, otherVars, sessVars, tokVars, now>>

\* a disconnect that also closes the HTTP session
disconnect_ClosesSession ==
    /\ variant = "OMCloud"
    /\ IF ~(wsclient /= None /\ connected)
       THEN wsResult' = "noop" /\ UNCHANGED <<wsClosed, wsCloseLog, sessVars>>
       ELSE /\ wsClosed' = wsClosed \cup {wsclient}
            /\ wsCloseLog' = Append(wsCloseLog, wsclient)
            /\ wsResult' = "disconnected"
            /\ sessionClosed' = TRUE /\ UNCHANGED <<session, close_session>>
    /\ UNCHANGED <<wsclient, wsOpens, connecting, handshake, listenVars, reqVars,
                   cfgVars, otherVars, tokVars, now>>

\* OMClient.disconnect: closes the socket when connected
disconnect ==
    /\ variant = "OMCloud"
    /\ IF ~(wsclient /= None /\ connected)
       THEN wsResult' = "noop" /\ UNCHANGED <<wsClosed, wsCloseLog>>
       ELSE /\ wsClosed' = wsClosed \cup {wsclient}
            /\ wsCloseLog' = Append(wsCloseLog, wsclient)
            /\ wsResult' = "disconnected"
    /\ UNCHANGED <<wsclient, wsOpens, connecting, handshake, listenVars, reqVars,
                   cfgVars, otherVars, sessVars, tokVars, now>>

\* close() of the four classes (client/openmoticscloud.py and
\* client/localgateway.py override OMClient.close): the session is closed
\* when the client created it; the socket is left alone
close ==
    /\ pc = "idle"
    /\ sessionClosed' = (sessionClosed \/ (session /= "none" /\ close_session))
    /\ wsResult' = "closed"
    /\ UNCHANGED <<session, close_session, sockVars, listenVars, reqVars,
                   cfgVars, otherVars, tokVars, now>>

\* ---------------------------------------------------------------- frames
\* the events the server reports
Events == 1..MaxBody

\* json.dumps of an event, as the characters of the text frame
JsonDumps(e) == <<"{", e, "}">>

\* message.json(): json.loads of the frame's text
JsonLoads(text) == text[2]

Frame(type) == [type |-> type, data |-> <<>>]
TextFrame(e) == [type |-> "TEXT", data |-> JsonDumps(e)]

\* what receive() returns on an open socket: a text or binary frame, the
\* peer's close frame, or an error
OpenFrames ==
    {TextFrame(e) : e \in Events} \cup {Frame("BINARY"), Frame("CLOSE"),
                                        Frame("ERROR")}

\* what receive() returns on a socket closed on this side
ClosedFrames == {Frame("CLOSED"), Frame("CLOSING")}

\* frames after which the loop of listen goes on
Continues(f) == f.type \in {"TEXT", "BINARY"}

\* the WSMsgType test of listen that raises OpenMoticsConnectionClosed
IsCloseType_CloseOnly(f) == f.type = "CLOSE"
IsCloseType(f) == f.type \in {"CLOSE", "CLOSED", "CLOSING"}

\* the callback called a second time for the same text frame
CallbackArgs_Twice(f) ==
    IF f.type = "TEXT" THEN <<JsonLoads(f.data), JsonLoads(f.data)>> ELSE <<>>

\* the callback calls listen makes for frame f: one, with the decoded text,
\* for a text frame
CallbackArgs(f) == IF f.type = "TEXT" THEN <<JsonLoads(f.data)>> ELSE <<>>

\* listen with the test of its guard reduced to the handle
listen_HandleOnly ==
    /\ variant = "OMCloud" /\ lpc = "idle"
    /\ received' = <<>> /\ delivered' = <<>>
    /\ IF wsclient = None
       THEN /\ listenResult' = ErrGeneric
            /\ UNCHANGED <<lpc, listenSock>>
       ELSE /\ lpc' = "recv" /\ listenSock' = wsclient
            /\ listenResult' = "running"
    /\ UNCHANGED <<sockVars, wsResult, reqVars, cfgVars, otherVars, sessVars, tokVars,
                   now>>

\* listen() up to its first await: raises when not connected, otherwise
\* enters the loop and awaits receive() on the stored socket
listen ==
    /\ variant = "OMCloud" /\ lpc = "idle"
    /\ received' = <<>> /\ delivered' = <<>>
    /\ IF ~(wsclient /= None /\ connected)
       THEN /\ listenResult' = ErrGeneric
            /\ UNCHANGED <<lpc, listenSock>>
       ELSE /\ lpc' = "recv" /\ listenSock' = wsclient
            /\ listenResult' = "running"
    /\ UNCHANGED <<sockVars, wsResult, reqVars, cfgVars, otherVars, sessVars, tokVars,
                   now>>

\* receive() returns frame f: one pass of the loop of listen, up to the
\* next receive() or the end of listen.  The socket closes itself on the
\* peer's close frame and on an error.
Receive ==
    /\ lpc = "recv"
    /\ \E f \in (IF listenSock \in wsClosed THEN ClosedFrames
                 ELSE OpenFrames) :
          /\ Continues(f) => Len(received) < MaxFrames
          /\ received' = Append(received, f)
          /\ wsClosed' = IF f.type \in {"CLOSE", "ERROR"}
                         THEN wsClosed \cup {listenSock} ELSE wsClosed
          /\ IF f.type = "ERROR"
             THEN /\ listenResult' = ErrConnection /\ lpc' = "idle"
                  /\ UNCHANGED <<delivered, listenSock>>
             ELSE /\ delivered' = delivered \o CallbackArgs(f)
                  /\ IF IsCloseType(f)
                     THEN /\ listenResult' = ErrClosed /\ lpc' = "idle"
                          /\ UNCHANGED listenSock
                     ELSE IF wsclient \in wsClosed
                     THEN /\ listenResult' = "returned" /\ lpc' = "idle"
                          /\ UNCHANGED listenSock
                     ELSE /\ listenSock' = wsclient
                          /\ UNCHANGED <<lpc, listenResult>>
    /\ UNCHANGED <<wsclient, wsOpens, connecting, wsCloseLog, wsResult,
                   handshake, reqVars, cfgVars, otherVars, sessVars, tokVars, now>>

\* the task running listen() is cancelled while it awaits receive()
CancelListen ==
    /\ lpc = "recv"
    /\ lpc' = "idle" /\ listenResult' = "cancelled"
    /\ UNCHANGED <<listenSock, received, delivered, sockVars, wsResult,
                   reqVars, cfgVars, otherVars, sessVars, tokVars, now>>

\* ------------------------------------------------------------------ Next
\* the request path of one client
Next ==
    \/ StartRequest
    \/ StartExecAction
    \/ Prepare
    \/ GetTokenRecurse
    \/ GetTokenOverflow
    \/ Respond
    \/ Backoff
    \/ Return
    \/ Tick
    \/ close

Spec == Init /\ [][Next]_vars

\* the event-stream path of one cloud client.  The refresh method plays no
\* part in the life of the socket: the clients that have one are followed
\* in SpecHs and SpecMix
InitWs == Init /\ HasConnect(variant) /\ ~hasRefresh

NextWs ==
    \/ connect
    \/ ConnectOpened
    \/ ConnectFailed
    \/ disconnect
    \/ close
    \/ listen
    \/ Receive
    \/ CancelListen

SpecWs == InitWs /\ [][NextWs]_vars

\* opening the event stream, for each base URL a cloud client can be given
InitHs == Constructed /\ HasConnect(variant) /\ base_url \in BaseUrls

NextHs ==
    \/ connect
    \/ ConnectOpened
    \/ ConnectFailed
    \/ disconnect
    \/ close

SpecHs == InitHs /\ [][NextHs]_vars

\* the token bookkeeping of client/localgateway.py, with the login request
\* of get_token answered
InitTok == Init /\ variant = "OMGateway"

NextTok ==
    \/ StartRequest
    \/ StartExecAction
    \/ LoginAnswered
    \/ Prepare
    \/ Respond
    \/ Backoff
    \/ Return
    \/ Tick

SpecTok == InitTok /\ [][NextTok]_vars

\* exec_action of localgateway.py on an event loop that runs every ready
\* coroutine, against a gateway that answers every attempt
InitGw == Init /\ variant = "Gateway"

NextGw ==
    \/ StartExecAction
    \/ Prepare
    \/ Respond
    \/ Backoff
    \/ Return

SpecGw ==
    /\ InitGw /\ [][NextGw]_vars
    /\ WF_vars(Prepare) /\ WF_vars(Respond) /\ WF_vars(Backoff)

\* several tasks calling _request on one client
NextPool ==
    \/ \E t \in Tasks : TaskEnter(t)
    \/ \E t \in Tasks : TaskSend(t)
    \/ \E t \in Tasks : TaskDone(t)

SpecPool == Init /\ [][NextPool]_vars

\* requests of a cloud client with a refresh method, up to the answer to
\* their first attempt, while the same client connects and listens: both
\* paths call the refresh method and store its result
InitMix ==
    Init /\ variant = "OMCloud" /\ hasRefresh /\ session = "supplied"

NextMix ==
    \/ StartRequest
    \/ Prepare
    \/ Respond
    \/ Return
    \/ connect
    \/ ConnectOpened
    \/ ConnectFailed
    \/ listen
    \/ CancelListen

SpecMix == InitMix /\ [][NextMix]_vars

\* one get, post or exec_action of a client, up to the answer to its first
\* attempt, while the same client connects, listens and disconnects.  The
\* refresh method is left out: the clients that have one are followed in
\* SpecMix
InitFrame ==
    /\ Init /\ session = "supplied" /\ ~hasRefresh
    /\ variant \in {"OMCloud", "Gateway"}

NextFrame ==
    \/ StartRequest
    \/ StartExecAction
    \/ Prepare
    \/ Respond
    \/ connect
    \/ ConnectOpened
    \/ listen
    \/ Receive
    \/ disconnect

SpecFrame == InitFrame /\ [][NextFrame]_vars

\* the outputs facade of a gateway client
InitOut == Init /\ variant = "Gateway"

NextOut ==
    \/ turn_on
    \/ turn_off
    \/ toggle
    \/ ConfigsAnswered
    \/ StatusAnswered
    \/ SetAnswered
    \/ FacadeReturn

SpecOut == InitOut /\ [][NextOut]_vars

\* ------------------------------------------------------------ properties
Last(seq) == seq[Len(seq)]
AllOfKind(os, kind) == \A i \in 1..Len(os) : os[i].k = kind
Is2xx(o) == o.k = "http" /\ o.status >= 200 /\ o.status < 300
IsOtherErrorStatus(o) == RaisesForStatus(o) /\ o.status \notin {401, 403}
IsAuthStatus(o) == o.k = "http" /\ o.status \in {401, 403}

C2_ThirdAttemptResultReturned ==
    /\ (Len(outcomes) = 2 /\ AllOfKind(outcomes, "connfail")) => pc /= "done"
    /\ (/\ pc = "done" /\ op = "request" /\ Len(outcomes) = 3
        /\ outcomes[1].k = "connfail" /\ outcomes[2].k = "connfail"
        /\ Is2xx(outcomes[3]))
           => (/\ result.kind = "ok"
               /\ result.value.payload = outcomes[3].payload
               /\ result.value.decoded = (outcomes[3].ctype = "json"))

C2_Witness ==
    /\ pc = "done" /\ op = "request" /\ Len(outcomes) = 3
    /\ outcomes[1].k = "connfail" /\ outcomes[2].k = "connfail"
    /\ Is2xx(outcomes[3]) /\ result.kind = "ok"
    /\ result.value.payload = 2

\* C3 (as claimed): an attempt that exceeds the request timeout ends the
\* call at once with the Timeout error: it is the only attempt, and the
\* backoff wrapper schedules no retry after it.
C3_TimeoutNotRetried ==
    (outcomes /= <<>> /\ outcomes[1].k = "timeout")
        => (/\ Len(outcomes) = 1 /\ pc = "done"
            /\ result = Raised(ErrTimeout))

\* C4: a request that ends on an attempt that got no answer within
\* request_timeout raises an error that is an OpenMoticsConnectionError.
C4_TimeoutIsConnectionError ==
    (pc = "done" /\ outcomes /= <<>> /\ Last(outcomes).k = "timeout")
        => (result.kind = "error" /\ IsConnectionError(result.err))

C4_Witness ==
    /\ pc = "done" /\ outcomes /= <<>> /\ Last(outcomes).k = "timeout"
    /\ variant = "Cloud" /\ result.err = ErrTimeout

\* C5 (as claimed): an attempt of a request answered with 401 or 403 ends
\* the call with AuthenticationException, with no further attempt, for
\* every client class.
C5_AuthErrorNotRetried ==
    (op = "request" /\ outcomes /= <<>> /\ IsAuthStatus(Last(outcomes)))
        => (pc = "done" /\ result = Raised(ErrAuth))

CountPath(tr, path) == Cardinality({i \in 1..Len(tr) : tr[i].path = path})
HasAction(tr) == \E i \in 1..Len(tr) : tr[i].path = "action"
FirstAction(tr) ==
    CHOOSE i \in 1..Len(tr) :
        tr[i].path = "action" /\ \A j \in 1..(i - 1) : tr[j].path /= "action"
\* the logins started before the first action request of the call
LoginsBeforeAction(tr) ==
    IF HasAction(tr)
    THEN CountPath(SubSeq(tr, 1, FirstAction(tr) - 1), "login")
    ELSE CountPath(tr, "login")
\* the first action request of the call was rejected (401 / 403)
FirstActionRejected(tr) == HasAction(tr) /\ tr[FirstAction(tr)].end = ErrAuth
AfterFirstAction(tr) == SubSeq(tr, FirstAction(tr) + 1, Len(tr))

\* C7 (as claimed): a finished exec_action has started exactly one login
\* before its action request when the call began with no token or with a
\* token whose expiry is less than 20 seconds ahead, and none otherwise.
C7_LoginBeforeAction ==
    (pc = "done" /\ op = "exec_action")
        => LoginsBeforeAction(opsTrace) =
               (IF \/ startToken = None
                   \/ variant = "OMGateway"
                        /\ token_expires_at < now + CLOCK_OUT_OF_SYNC_MAX_SEC
                THEN 1 ELSE 0)

\* C8 (as claimed): when the action request of exec_action is rejected,
\* exactly one re-login and exactly one retry of the action follow, and the
\* call ends with what the retry ended with.
C8_OneReloginOneRetry ==
    (pc = "done" /\ op = "exec_action" /\ FirstActionRejected(opsTrace))
        => (/\ CountPath(AfterFirstAction(opsTrace), "login") = 1
            /\ CountPath(AfterFirstAction(opsTrace), "action") = 1
            /\ result = Completion(variant, Last(outcomes)))

\* C8 (amended): when the first action request of exec_action is rejected,
\* exactly one re-login follows; if it succeeds exactly one retry of the
\* action follows it and the call ends with what the retry ended with, and
\* if it fails no retry is made and the call ends with the re-login's error.
C8_OneReloginThenRetryIfLoggedIn ==
    (pc = "done" /\ op = "exec_action" /\ FirstActionRejected(opsTrace))
        => LET after == AfterFirstAction(opsTrace)
           IN  /\ CountPath(after, "login") = 1
               /\ after[1].path = "login"
               /\ IF after[1].end = "ok"
                  THEN /\ Len(after) = 2 /\ after[2].path = "action"
                       /\ result = Completion(variant, Last(outcomes))
                  ELSE /\ Len(after) = 1
                       /\ result = Raised(after[1].end)

C8_Witness ==
    /\ pc = "done" /\ op = "exec_action" /\ Len(opsTrace) = 4
    /\ opsTrace[2] = [path |-> "action", end |-> ErrAuth]
    /\ opsTrace[3] = [path |-> "login", end |-> "ok"]
    /\ opsTrace[4] = [path |-> "action", end |-> "ok"]
    /\ result.kind = "ok"

\* C9 (as claimed): a call in which a login answer said that success is not
\* true ends with the token cleared and AuthenticationException raised, the
\* refused login being its last operation.
C9_LoginRefusedClearsTokenAndRaisesAuth ==
    (pc = "done" /\ loginRefused)
        => (/\ token = None
            /\ result = Raised(ErrAuth)
            /\ Last(opsTrace).path = "login")

\* C10: connected is false as long as no socket was opened, true when
\* ws_connect has returned a socket, false when disconnect has run; a
\* connect called while connected issues no socket open.
C10_ConnectedLifecycle ==
    [][/\ (wsOpens = 0 => ~connected)
       /\ (ConnectOpened => connected')
       /\ (disconnect => ~connected')
       /\ ((connect /\ connected)
              => (connecting' = connecting /\ wsOpens' = wsOpens))]_vars

C10_Witness ==
    /\ connected /\ wsResult = "noop" /\ wsOpens = 1 /\ connecting = 0

\* the sockets that were opened and are not closed
LiveSockets == {i \in 1..wsOpens : i \notin wsClosed}

\* C11 (as claimed): whatever the interleaving of connect, disconnect, close
\* and listen, two connects that overlap at ws_connect included, the client
\* never has more than one socket that is opened and not closed.
C11_AtMostOneLiveSocket == Cardinality(LiveSockets) <= 1

\* C12: listen called while not connected (never connected, or disconnected
\* since) raises OpenMoticsError, and has then awaited no receive and called
\* the callback for nothing.
C12_ListenNotConnectedRaises ==
    [][(listen /\ ~connected)
          => (/\ listenResult' = ErrGeneric /\ lpc' = "idle"
              /\ received' = <<>> /\ delivered' = <<>>
              /\ UNCHANGED sockVars)]_vars

C12_Witness ==
    /\ listenResult = ErrGeneric /\ wsOpens = 1 /\ wsclient \in wsClosed
    /\ received = <<>> /\ delivered = <<>> /\ lpc = "idle"

\* the text frames among the frames received, in arrival order
TextFrames(fs) == SelectSeq(fs, LAMBDA f : f.type = "TEXT")

EndsListen(f) == f.type \in {"ERROR", "CLOSE", "CLOSED", "CLOSING"}

\* an error or close-type frame among the received ones is the last, has
\* ended the listen with its error, and the callback was not called for it
EndingFrameIsLast ==
    \A i \in 1..Len(received) :
        EndsListen(received[i])
            => (/\ i = Len(received) /\ lpc = "idle"
                /\ listenResult = (IF received[i].type = "ERROR"
                                   THEN ErrConnection ELSE ErrClosed)
                /\ Len(delivered) = Len(TextFrames(SubSeq(received, 1, i - 1))))

\* C14: an error frame ends listen with OpenMoticsConnectionError, and a
\* close, closed or closing frame with OpenMoticsConnectionClosed; such a
\* frame is the last one the listen receives and the callback is not called
\* for it; a listen that ends otherwise was cancelled or found the socket
\* closed.
C14_ErrorAndCloseFramesEndListen ==
    [][/\ EndingFrameIsLast'
       /\ (lpc = "recv" /\ lpc' = "idle")
              => \/ /\ listenResult' \in {ErrConnection, ErrClosed}
                    /\ EndsListen(Last(received'))
                 \/ listenResult' = "cancelled"
                 \/ listenResult' = "returned" /\ wsclient' \in wsClosed']_vars

C14_Witness ==
    /\ lpc = "idle" /\ listenResult = ErrClosed /\ Len(received) = 2
    /\ received[1].type = "TEXT" /\ received[2].type = "CLOSING"
    /\ Len(delivered) = 1

\* C15 (as claimed): once close() has run, the socket that was open is
\* closed (connected is false) and the session the client created is closed.
C15_CloseClosesSocketAndOwnPool ==
    wsResult = "closed"
        => (~connected /\ (close_session => sessionClosed))

\* C16: the session changes only when an attempt of a request finds none and
\* creates one, and no request goes on the wire without a session; a session
\* is closed only by close(), and only one the client created; a session the
\* caller supplied is never closed.
C16_OnlyLazySessionClosed ==
    [][/\ session' /= session
           => (session = "none" /\ session' = "own" /\ tries' = tries + 1)
       /\ pc' = "inflight" => session' /= "none"
       /\ sessionClosed' /= sessionClosed
           => (close /\ session = "own" /\ sessionClosed')
       /\ (close /\ session = "own") => sessionClosed'
       /\ session' = "supplied" => ~sessionClosed'
       /\ close_session' = (session' = "own")]_vars

C16_Witness ==
    /\ session = "own" /\ sessionClosed /\ result = Raised(ErrRuntime)

\* no socket occurs twice in the log of close() calls
NoDup(seq) == \A i, j \in 1..Len(seq) : seq[i] = seq[j] => i = j

\* C17: disconnect on a client that is not connected changes nothing;
\* after any disconnect the client is not connected; close() is called at
\* most once on each socket that was opened.
C17_DisconnectIdempotent ==
    [][/\ (disconnect /\ ~connected) => UNCHANGED sockVars
       /\ disconnect => ~connected'
       /\ NoDup(wsCloseLog')
       /\ \A i \in 1..Len(wsCloseLog') : wsCloseLog'[i] \in 1..wsOpens']_vars

C17_Witness ==
    /\ variant = "OMCloud" /\ wsResult = "noop" /\ ~connected
    /\ wsclient \in wsClosed /\ wsCloseLog = <<1>>

\* C18 (as claimed): connect on a client without a session raises
\* OpenMoticsError, which is not a connection error, opens no socket and
\* leaves the client not connected.
C18_ConnectWithoutSessionRaisesGeneric ==
    (session = "none" /\ wsResult \notin {"none", "noop", "closed"})
        => (/\ wsResult = ErrGeneric /\ ~IsConnectionError(wsResult)
            /\ wsOpens = 0 /\ connecting = 0 /\ ~connected)

\* C19 (as claimed): a header the caller passes under a key the engine sets
\* too is transmitted with the caller's value.
C19_CallerHeadersWin ==
    (pc = "inflight" /\ inflight.path = "req")
        => \A k \in DOMAIN callerHdrs \cap DOMAIN EngineHeaders(variant, token) :
               inflight.headers[k] = callerHdrs[k]

\* C20: a cloud client with a refresh method has called it once for each
\* attempt of the running request, and the attempt on the wire carries the
\* token the method returned; without a refresh method the stored token is
\* the one the call began with and the attempt carries it.
C20_RefreshBeforeEveryAttempt ==
    (~IsGateway(variant) /\ op = "request")
        => IF hasRefresh
           THEN /\ refreshCalls = tries
                /\ pc = "inflight"
                      => (/\ inflight.tok = refreshed
                          /\ inflight.headers["Authorization"] =
                                 EngineValue(refreshed))
           ELSE /\ refreshCalls = 0 /\ token = startToken
                /\ pc = "inflight"
                      => (/\ inflight.tok = startToken
                          /\ inflight.headers["Authorization"] =
                                 EngineValue(startToken))

C20_Witness ==
    /\ variant = "Cloud" /\ hasRefresh /\ pc = "inflight" /\ tries = 3
    /\ refreshCalls = 3 /\ inflight.tok /= startToken

\* C21: every action request a gateway client has on the wire while a token
\* is stored carries that token as the token field of its body, on the first
\* attempt, on each retry and after a re-login.
C21_GatewayBodyCarriesToken ==
    (IsGateway(variant) /\ pc = "inflight" /\ inflight.path = "action"
        /\ token /= None)
        => inflight.bodyToken = token

C21_Witness ==
    /\ variant = "Gateway" /\ pc = "inflight" /\ phase = "action2"
    /\ tries = 2 /\ token /= None /\ token /= startToken
    /\ inflight.bodyToken = token

C27_TlsFailureIsSslError ==
    (pc = "done" /\ outcomes /= <<>> /\ AllOfKind(outcomes, "sslfail"))
        => (/\ Len(outcomes) = max_tries
            /\ result = Raised(ErrSsl)
            /\ ErrSsl /= ErrConnection)

\* C28: the attempts of one _request follow one another: an attempt goes on
\* the wire only when none is there, every earlier attempt of the operation
\* has been answered with a failure the wrapper retries, and an attempt
\* after the first is prepared only once the backoff delay has elapsed; the
\* answer to an attempt takes it off the wire.
C28_AttemptsSequential ==
    [][/\ (pc' = "inflight" /\ pc /= "inflight")
            => (/\ pc = "prep" /\ inflight = NoReq /\ inflight' /= NoReq
                /\ tries' = Len(outcomes) + 1
                /\ \A i \in 1..Len(outcomes) :
                      Retries(Classify(variant, outcomes[i]), i))
       /\ (pc' = "prep" /\ pc /= "prep" /\ tries' >= 1) => pc = "backoff"
       /\ (pc = "backoff") => (inflight = NoReq /\ tries = Len(outcomes))
       /\ (pc = "inflight" /\ pc' /= "inflight") => inflight' = NoReq]_vars

C28_Witness ==
    /\ pc = "inflight" /\ tries = 3 /\ Len(outcomes) = 2
    /\ inflight /= NoReq /\ op = "request"

\* the errors of other libraries and of the interpreter
RawErrors == {ErrRawTimeout, ErrRuntime, ErrKey, ErrRecursion}

\* C22 (as claimed): whatever connect, listen or a request raises is one of
\* the library's own error kinds; no error of the transport library or of
\* the interpreter reaches the caller.
C22_OnlyTaxonomyErrorsEscape ==
    /\ wsResult \notin RawErrors
    /\ listenResult \notin RawErrors
    /\ result.kind = "error" => IsOpenMoticsError(result.err)

\* C23 (as claimed): the socket is opened at the client's own base host with
\* the scheme wss and a path ending in /ws/events, and the
\* OpenMoticsConnectionError of a failed open names the URL that was tried.
C23_SocketOpenedAtOwnHost ==
    handshake /= NoHandshake
        => /\ handshake.url.scheme = "wss"
           /\ handshake.url.host = base_url.host
           /\ handshake.url.path = base_url.path \o WsEventsPath
           /\ wsResult = ErrConnection
                 => handshake.errorUrl = handshake.url

\* C24 (as claimed): when connect issues the socket open, the handshake's
\* Sec-WebSocket-Protocol header is authorization.bearer.<base64 of the
\* token stored on the client at that moment>.
C24_HandshakeCarriesStoredToken ==
    wsResult = "opening"
        => handshake.headers["Sec-WebSocket-Protocol"] =
               <<"authorization", "bearer", base64_encode(token)>>

\* C29: while requests, connects and a listen loop of one cloud client
\* interleave, the stored token is always the whole token the refresh
\* method returned last, whichever path asked for it; a request on the wire
\* carries the token that was stored when it left, and the handshake of a
\* connect carries a token the refresh method returned.
C29_LastRefreshWins ==
    /\ token \in Tokens
    /\ refreshed /= None => token = refreshed
    /\ pc = "inflight"
          => (/\ inflight.tok \in Tokens
              /\ inflight.headers["Authorization"] =
                     EngineValue(inflight.tok))
    /\ handshake /= NoHandshake
          => \E t \in Tokens :
                handshake.headers["Sec-WebSocket-Protocol"] =
                    <<"authorization", "bearer", base64_encode(t)>>

C29_Witness ==
    /\ pc = "inflight" /\ lpc = "recv" /\ connecting > 0
    /\ inflight.tok /= token
    /\ token = refreshed

\* C30 (as claimed): when listen ends with OpenMoticsConnectionError or
\* OpenMoticsConnectionClosed the client is not connected, so that the next
\* connect opens a socket.
C30_ListenFaultLeavesDisconnected ==
    [][(lpc = "recv" /\ lpc' = "idle"
           /\ listenResult' \in {ErrConnection, ErrClosed})
          => ~connected']_vars

C32_GetTokenNotReentered ==
    variant = "OMGateway"
        => (/\ depth <= 1
            /\ pc = "done" => result /= Raised(ErrRecursion))

\* C33: however many tasks run _request at the same time on a client, at
\* most one ClientSession is created for it, and all the requests that are
\* on the wire were sent on the same session.
C33_OnePoolCreated ==
    /\ pools <= 1
    /\ \A t, u \in Tasks :
          (tasks[t].pc = "inflight" /\ tasks[u].pc = "inflight")
              => tasks[t].pool = tasks[u].pool

C33_Witness ==
    /\ pools = 1 /\ session = "own" /\ close_session
    /\ \A t \in Tasks : tasks[t].pc = "inflight" /\ tasks[t].pool = 1

\* the operations of the running exec_action, at most 3 attempts each
WithinOperationBounds ==
    op = "exec_action"
        => (/\ CountPath(opsTrace, "login") <= 2
            /\ CountPath(opsTrace, "action") <= 2
            /\ tries <= max_tries /\ Len(outcomes) <= max_tries
            /\ Len(opsTrace) * max_tries <= 12)

C35_RetryCarriesNewTokenDataIntact ==
    (variant = "Gateway" /\ op = "exec_action")
        => /\ data \in CallerData
           /\ "token" \notin DOMAIN data
           /\ (pc = "inflight" /\ phase = "action2")
                 => (/\ token /= None
                     /\ inflight.bodyToken = token
                     /\ PostBody(data, inflight.bodyToken)["token"] = token)

C35_Witness ==
    /\ variant = "Gateway" /\ op = "exec_action" /\ pc = "inflight"
    /\ phase = "action2" /\ tries = 3 /\ data /= NoData
    /\ inflight.bodyToken /= startToken /\ startToken /= None

\* C36 (as claimed): when the socket open of a connect fails, connect raises
\* OpenMoticsConnectionError and the WebSocket state of the client is what
\* it was: the same handle (none when there was none), the same sockets
\* closed, connected unchanged, no socket opened.
C36_FailedOpenRaisesConnectionError ==
    [][(connecting' < connecting /\ wsOpens' = wsOpens)
          => /\ wsResult' = ErrConnection
             /\ wsclient' = wsclient /\ wsClosed' = wsClosed
             /\ connected' = connected]_vars

\* a step of get, post or exec_action; a step of listen; a disconnect that
\* closes the socket
RequestStep == reqVars' /= reqVars
ListenStep == listenVars' /= listenVars
DisconnectStep == Len(wsCloseLog') > Len(wsCloseLog)

\* C37: no step of get, post or exec_action changes the WebSocket handle or
\* which sockets are closed, and no step of listen or disconnect changes the
\* stored token, its expiry, or the HTTP session.
C37_RequestAndStreamPathsDisjoint ==
    [][/\ RequestStep => UNCHANGED <<wsclient, wsClosed>>
       /\ (ListenStep \/ DisconnectStep)
             => UNCHANGED <<token, token_expires_at, session, sessionClosed,
                            close_session>>]_vars

C37_Witness ==
    /\ variant = "OMCloud" /\ pc = "done" /\ result.kind = "ok"
    /\ token /= None /\ wsclient /= None
    /\ Len(wsCloseLog) > 0 /\ Len(received) > 0 /\ lpc = "idle"
    /\ ~sessionClosed

\* a pass of the loop of listen whose receive() returned a frame that is
\* not text, error, close, closed or closing
OtherFramePass ==
    /\ lpc = "recv" /\ Len(received') = Len(received) + 1
    /\ Last(received').type
           \notin {"TEXT", "ERROR", "CLOSE", "CLOSED", "CLOSING"}

\* C38 (as claimed): a frame that is neither text, error, close, closed nor
\* closing (a binary frame) does not call the callback and does not end
\* listen: listen goes on to await the next frame.
C38_OtherFrameSkippedLoopGoesOn ==
    [][OtherFramePass
          => /\ delivered' = delivered
             /\ lpc' = "recv" /\ listenResult' = "running"]_vars

\* the set_output actions among the actions sent by the running call
SetOutputs(sent) == SelectSeq(sent, LAMBDA a : a.action = "set_output")

\* the dimmer value the gateway is to receive for a given value
ExpectedDimmer(v) ==
    IF v < 0 THEN 0 ELSE IF v > 100 THEN 100 ELSE v

\* C39: a turn_on of the gateway outputs facade has sent exactly one
\* set_output action, for the output asked, with is_on true and with the
\* value brought into 0..100 as dimmer, or without dimmer when no value
\* was given; a toggle that found the output has sent exactly one
\* set_output action, for that output, whose is_on is the negation of the
\* status the gateway just reported for it.
C39_TurnOnClampsToggleNegates ==
    LET c == facade.call
        sets == SetOutputs(facade.sent)
    IN  /\ Len(sets) <= 1
        /\ (c.op = "turn_on" /\ facade.pc \in {"set", "done"})
              => /\ Len(sets) = 1 /\ facade.sent = sets
                 /\ sets[1].data.id = c.id /\ sets[1].data.is_on = TRUE
                 /\ IF c.value.given
                    THEN /\ DOMAIN sets[1].data = {"id", "is_on", "dimmer"}
                         /\ sets[1].data.dimmer \in 0..100
                         /\ sets[1].data.dimmer = ExpectedDimmer(c.value.v)
                    ELSE DOMAIN sets[1].data = {"id", "is_on"}
        /\ (c.op = "toggle" /\ facade.pc = "set")
              => /\ Len(sets) = 1
                 /\ Last(facade.sent) = sets[1]
                 /\ sets[1].data.id = c.id
                 /\ \E i \in 1..Len(facade.outputs) :
                       /\ facade.outputs[i].idx = c.id
                       /\ sets[1].data.is_on = ~facade.outputs[i].on

C39_Witness ==
    /\ facade.call.op = "toggle" /\ facade.pc = "set" /\ facade.call.id = 1
    /\ Len(facade.sent) = 2 /\ facade.outputs[2].on /\ ~facade.outputs[1].on
    /\ Last(facade.sent).data = [id |-> 1, is_on |-> FALSE]

====
